---- MODULE Spec2Model ----
(***************************************************************************)
(* Model of the Sparkify data-warehouse scripts: create_tables.py (schema   *)
(* pipeline), etl.py (load pipeline) and sql_queries.py (the statements and *)
(* the psycopg2 wrapper functions).  The warehouse (Redshift) is the only   *)
(* persistent state; each pipeline is a sequence of database calls, each of *)
(* which may raise psycopg2.Error.                                          *)
(***************************************************************************)
EXTENDS Integers, Sequences, FiniteSets, Bags, TLC

VARIABLES
    tables,         \* the warehouse: table name -> [exists, layout, rows]
    srcEvents,      \* the log JSON records in S3 (config S3.LOG_DATA), a bag
    srcSongs,       \* the song JSON records in S3 (config S3.SONG_DATA), a bag
    pipeline,       \* which script's main() is running
    pc,             \* position of main()
    i,              \* index of the for loop main() is in
    cursor,         \* main()'s local `cursor`
    connection,     \* main()'s local `connection`
    autocommit,     \* autocommit mode of the session behind `connection`
    autocommitArg,  \* the autocommit argument connect() was called with
    calls,          \* database calls issued by the current run, in order
    raised,         \* the call whose exception propagated out of main()
    faults,         \* number of psycopg2 errors the environment has raised
    runs,           \* number of pipeline runs started
    prev,           \* the warehouse as it was when the current run started
    loads           \* load runs finished since the tables were last dropped

vars == <<tables, srcEvents, srcSongs, pipeline, pc, i, cursor, connection,
          autocommit, autocommitArg, calls, raised, faults, runs, prev, loads>>

\* ---------------------------------------------------------------- bounds
MaxRuns == 2
MaxFaults == 1
MaxStagingRows == 2

\* ------------------------------------------------------------ SQL values
\* A nullable SQL value is a set: {} is NULL, {v} is the value v.
Null == {}
Some(v) == {v}
IsNull(x) == x = {}
Val(x) == CHOOSE v \in x : TRUE
\* SQL equality in a join condition: never true when a side is NULL.
SqlEq(x, y) == x # {} /\ y # {} /\ x = y

RECURSIVE SumF(_, _)
SumF(f, S) == IF S = {} THEN 0
              ELSE LET x == CHOOSE y \in S : TRUE IN f[x] + SumF(f, S \ {x})

RECURSIVE BagsUpTo(_, _)
\* all bags of at most n elements drawn from the set S
BagsUpTo(S, n) ==
    IF n = 0 THEN {EmptyBag}
    ELSE LET smaller == BagsUpTo(S, n - 1)
         IN  smaller \cup {b (+) SetToBag({x}) : b \in smaller, x \in S}

Range(s) == {s[k] : k \in DOMAIN s}

\* ---------------------------------------------------------------- schema
TABLES == <<"staging_events", "staging_songs", "songplays", "users", "songs",
            "artists", "time">>

TableNames == Range(TABLES)

STAGING_EVENTS_CREATE ==
    [name |-> "STAGING_EVENTS_CREATE", kind |-> "create", table |-> "staging_events",
     cols |-> <<"staging_event_id", "artist", "auth", "firstName", "gender",
                "itemInSession", "lastName", "length", "level", "location",
                "method", "page", "registration", "sessionId", "song", "status",
                "ts", "userAgent", "userId">>,
     identity |-> {"staging_event_id"},
     notnull |-> {"staging_event_id"}]

STAGING_SONGS_CREATE ==
    [name |-> "STAGING_SONGS_CREATE", kind |-> "create", table |-> "staging_songs",
     cols |-> <<"staging_song_id", "num_songs", "artist_id", "artist_latitude",
                "artist_longitude", "artist_location", "artist_name", "song_id",
                "title", "duration", "year">>,
     identity |-> {"staging_song_id"},
     notnull |-> {"staging_song_id"}]

SONGPLAYS_CREATE ==
    [name |-> "SONGPLAYS_CREATE", kind |-> "create", table |-> "songplays",
     cols |-> <<"songplay_id", "start_time", "user_id", "song_id", "artist_id",
                "session_id", "length", "location", "user_agent">>,
     identity |-> {"songplay_id"},
     notnull |-> {"songplay_id", "user_id"}]

USERS_CREATE ==
    [name |-> "USERS_CREATE", kind |-> "create", table |-> "users",
     cols |-> <<"user_id", "first_name", "last_name", "gender", "level">>,
     identity |-> {},
     notnull |-> {"user_id"}]

SONGS_CREATE ==
    [name |-> "SONGS_CREATE", kind |-> "create", table |-> "songs",
     cols |-> <<"song_id", "title", "artist_id", "year", "duration">>,
     identity |-> {},
     notnull |-> {"song_id", "title"}]

ARTISTS_CREATE ==
    [name |-> "ARTISTS_CREATE", kind |-> "create", table |-> "artists",
     cols |-> <<"artist_id", "name", "location", "latitude", "longitude">>,
     identity |-> {},
     notnull |-> {"artist_id", "name"}]

TIME_CREATE ==
    [name |-> "TIME_CREATE", kind |-> "create", table |-> "time",
     cols |-> <<"start_time", "hour", "day", "week", "month", "year", "weekday">>,
     identity |-> {},
     notnull |-> {"start_time", "hour", "day", "week", "month", "year", "weekday"}]

CREATE_QUERIES ==
    <<STAGING_EVENTS_CREATE, STAGING_SONGS_CREATE,
      SONGPLAYS_CREATE, USERS_CREATE, SONGS_CREATE, ARTISTS_CREATE, TIME_CREATE>>

\* the CREATE statement that declares table t
Declared(t) == CHOOSE q \in Range(CREATE_QUERIES) : q.table = t

\* A table of the warehouse.  Rows are kept as a bag of records over the
\* columns that are not identity columns: identity values are generated by
\* the engine and no statement of the repository reads them.
Absent == [exists |-> FALSE, layout |-> <<>>, rows |-> EmptyBag]
Created(t) == [exists |-> TRUE, layout |-> Declared(t).cols, rows |-> EmptyBag]

\* the relation exists with the columns the statements name
Ready(db, t) == db[t].exists /\ db[t].layout = Declared(t).cols

\* row r has a value in every column that table t declares NOT NULL (a
\* PRIMARY KEY column is NOT NULL; the uniqueness of a PRIMARY KEY is
\* informational in Redshift and is not enforced)
NotNullOk(t, r) ==
    \A c \in (Declared(t).notnull \ Declared(t).identity) : ~IsNull(r[c])


\* ------------------------------------------------------------ source data
\* One log record, as COPY maps it onto the columns of staging_events.  A
\* record with a song is a NextSong event; one without is a page hit.
Event(u, l, s) ==
    [artist |-> IF s = Null THEN Null ELSE Some("N1"),
     auth |-> IF u = Null THEN Some("Logged Out") ELSE Some("Logged In"),
     firstName |-> IF u = Null THEN Null ELSE Some("Ann"),
     gender |-> IF u = Null THEN Null ELSE Some("F"),
     itemInSession |-> Some(0),
     lastName |-> IF u = Null THEN Null ELSE Some("Lee"),
     length |-> IF s = Null THEN Null ELSE Some(200),
     level |-> Some(l),
     location |-> Some("SF"),
     method |-> Some("PUT"),
     page |-> IF s = Null THEN Some("Home") ELSE Some("NextSong"),
     registration |-> Some(1),
     sessionId |-> Some(7),
     song |-> s,
     status |-> Some(200),
     ts |-> IF s = Null THEN Some(277200000) ELSE Some(0),
     userAgent |-> Some("UA"),
     userId |-> u]

EventRows ==
    {Event(u, l, s) : u \in {Null, Some(1), Some(2)}, l \in {"free", "paid"},
                      s \in {Null, Some("T1")}}

\* One song document, as COPY ... JSON 'auto' maps it onto staging_songs.
SongDoc(sid, title, aid, aname) ==
    [num_songs |-> Some(1), artist_id |-> Some(aid), artist_latitude |-> Null,
     artist_longitude |-> Null, artist_location |-> Some("NY"),
     artist_name |-> Some(aname), song_id |-> Some(sid), title |-> Some(title),
     duration |-> Some(200), year |-> Some(2000)]

\* two songs that share a title, by two artists that share a name
SongDocs == {SongDoc("S1", "T1", "A1", "N1"), SongDoc("S2", "T1", "A2", "N1")}

\* ------------------------------------------------- timestamp conversions
\* (timestamp 'epoch' + ts/1000 * interval '1 s'): a timestamp is kept as
\* whole seconds since the epoch; ts is a bigint, so ts/1000 truncates.
StartTime(ts) == IF IsNull(ts) THEN Null ELSE Some(Val(ts) \div 1000)

DaysOf(secs) == secs \div 86400

\* Proleptic Gregorian date of a day number (days since 1970-01-01), by
\* eras of 400 years: z is the day number counted from 0000-03-01, doe the
\* day of the era, yoe the year of the era, doy the day of the year that
\* starts in March, mp the month counted from March.
CivilYMD(y, m, d) == [year |-> IF m <= 2 THEN y + 1 ELSE y, month |-> m, day |-> d]
CivilOfMp(y, doy, mp) ==
    CivilYMD(y, IF mp < 10 THEN mp + 3 ELSE mp - 9, doy - (153 * mp + 2) \div 5 + 1)
CivilOfDoy(y, doy) == CivilOfMp(y, doy, (5 * doy + 2) \div 153)
CivilOfYoe(era, doe, yoe) ==
    CivilOfDoy(yoe + era * 400, doe - (365 * yoe + yoe \div 4 - yoe \div 100))
CivilOfDoe(era, doe) ==
    CivilOfYoe(era, doe,
               (doe - doe \div 1460 + doe \div 36524 - doe \div 146096) \div 365)
CivilOfZ(z, era) == CivilOfDoe(era, z - era * 146097)
Civil(days) == CivilOfZ(days + 719468, (days + 719468) \div 146097)

IsLeap(y) == (y % 4 = 0 /\ y % 100 # 0) \/ y % 400 = 0

DaysBeforeMonth(y, m) ==
    SumF(<<31, IF IsLeap(y) THEN 29 ELSE 28, 31, 30, 31, 30, 31, 31, 30, 31, 30, 31>>,
         1 .. (m - 1))

\* 1 January of year n falls on a Thursday, or 31 December does
LongYear(n) == (n + n \div 4 - n \div 100 + n \div 400) % 7 = 4
              \/ ((n - 1) + (n - 1) \div 4 - (n - 1) \div 100 + (n - 1) \div 400) % 7 = 3

\* number of ISO 8601 weeks of year y
IsoWeeksIn(y) == IF LongYear(y) THEN 53 ELSE 52

IsoWeekOf(y, w) ==
    IF w < 1 THEN IsoWeeksIn(y - 1) ELSE IF w > IsoWeeksIn(y) THEN 1 ELSE w

\* the ISO 8601 week number of day number days, whose date is c
IsoWeek(days, c) ==
    IsoWeekOf(c.year,
              (DaysBeforeMonth(c.year, c.month) + c.day - (((days + 3) % 7) + 1) + 10)
                  \div 7)

\* EXTRACT(hour | day | week | month | year | weekday FROM t) of the
\* timestamp t of secs seconds, which falls on day number days, of date c;
\* weekday counts from Sunday = 0
Extracted(t, secs, days, c) ==
    [start_time |-> t,
     hour |-> Some((secs % 86400) \div 3600),
     day |-> Some(c.day),
     week |-> Some(IsoWeek(days, c)),
     month |-> Some(c.month),
     year |-> Some(c.year),
     weekday |-> Some((days + 4) % 7)]

ExtractedOfSecs(t, secs) == Extracted(t, secs, DaysOf(secs), Civil(DaysOf(secs)))

\* every EXTRACT of a NULL timestamp is NULL
TimeRow(t) ==
    IF IsNull(t)
    THEN [start_time |-> Null, hour |-> Null, day |-> Null, week |-> Null,
          month |-> Null, year |-> Null, weekday |-> Null]
    ELSE ExtractedOfSecs(t, Val(t))

\* ------------------------------------------------------ INSERT ... SELECT
\* Each operator is the SELECT of one statement, over the rows (bags) of
\* the tables it reads; the result is the bag of rows the INSERT adds.

\* SELECT DISTINCT artist_id, artist_name, ... FROM staging_songs
ArtistsSelect(ss) ==
    SetToBag({[artist_id |-> r.artist_id, name |-> r.artist_name,
               location |-> r.artist_location, latitude |-> r.artist_latitude,
               longitude |-> r.artist_longitude] : r \in BagToSet(ss)})

\* SELECT DISTINCT song_id, title, artist_id, year, duration FROM staging_songs
SongsSelect(ss) ==
    SetToBag({[song_id |-> r.song_id, title |-> r.title, artist_id |-> r.artist_id,
               year |-> r.year, duration |-> r.duration] : r \in BagToSet(ss)})

UsersRow(e) ==
    [user_id |-> e.userId, first_name |-> e.firstName, last_name |-> e.lastName,
     gender |-> e.gender, level |-> e.level]

\* the bug the WHERE clause prevents: rows without a user are selected too
UsersSelectNoWhere(se) == SetToBag({UsersRow(e) : e \in BagToSet(se)})

\* SELECT DISTINCT userId, firstName, lastName, gender, level
\* FROM staging_events WHERE userId IS NOT NULL
UsersSelect(se) ==
    SetToBag({UsersRow(e) : e \in {x \in BagToSet(se) : ~IsNull(x.userId)}})

\* SELECT DISTINCT start_time, EXTRACT(hour ...), ... FROM staging_events
TimeSelect(se) == SetToBag({TimeRow(StartTime(e.ts)) : e \in BagToSet(se)})

\* the all-NULL row a LEFT JOIN supplies when nothing matches
NoSong == [song_id |-> Null, title |-> Null, artist_id |-> Null, year |-> Null,
           duration |-> Null]
NoArtist == [artist_id |-> Null, name |-> Null, location |-> Null,
             latitude |-> Null, longitude |-> Null]

\* SELECT ... FROM staging_events se LEFT JOIN songs s ON se.song = s.title
\* LEFT JOIN artists a ON se.artist = a.name WHERE se.userId IS NOT NULL
\* (no DISTINCT: one output row per joined combination)
SongplaysSelect(se, songs, artists) ==
    LET E == {e \in BagToSet(se) : ~IsNull(e.userId)}
        SM(e) == {s \in BagToSet(songs) : SqlEq(e.song, s.title)}
        AM(e) == {a \in BagToSet(artists) : SqlEq(e.artist, a.name)}
        SL(e) == IF SM(e) = {} THEN {NoSong} ELSE SM(e)
        AL(e) == IF AM(e) = {} THEN {NoArtist} ELSE AM(e)
        T == UNION {{<<e, s, a>> : s \in SL(e), a \in AL(e)} : e \in E}
        W == [t \in T |-> se[t[1]]
                          * (IF t[2] = NoSong THEN 1 ELSE songs[t[2]])
                          * (IF t[3] = NoArtist THEN 1 ELSE artists[t[3]])]
        Out(t) == [start_time |-> StartTime(t[1].ts), user_id |-> t[1].userId,
                   song_id |-> t[2].song_id, artist_id |-> t[3].artist_id,
                   session_id |-> t[1].sessionId, length |-> t[1].length,
                   location |-> t[1].location, user_agent |-> t[1].userAgent]
        R == {Out(t) : t \in T}
    IN  [r \in R |-> SumF(W, {t \in T : Out(t) = r})]

\* ------------------------------------------------------------- statements
STAGING_EVENTS_COPY ==
    [name |-> "STAGING_EVENTS_COPY", kind |-> "copy", table |-> "staging_events"]
STAGING_SONGS_COPY ==
    [name |-> "STAGING_SONGS_COPY", kind |-> "copy", table |-> "staging_songs"]

SONGPLAYS_INSERT ==
    [name |-> "SONGPLAYS_INSERT", kind |-> "insert", table |-> "songplays",
     from |-> {"staging_events", "songs", "artists"}]
USERS_INSERT ==
    [name |-> "USERS_INSERT", kind |-> "insert", table |-> "users",
     from |-> {"staging_events"}]
SONGS_INSERT ==
    [name |-> "SONGS_INSERT", kind |-> "insert", table |-> "songs",
     from |-> {"staging_songs"}]
ARTISTS_INSERT ==
    [name |-> "ARTISTS_INSERT", kind |-> "insert", table |-> "artists",
     from |-> {"staging_songs"}]
TIME_INSERT ==
    [name |-> "TIME_INSERT", kind |-> "insert", table |-> "time",
     from |-> {"staging_events"}]

COPY_QUERIES == <<STAGING_EVENTS_COPY, STAGING_SONGS_COPY>>

\* the bug the order prevents: the fact table is filled before its dimensions
InsertQueriesFactFirst ==
    <<SONGPLAYS_INSERT, ARTISTS_INSERT, SONGS_INSERT, USERS_INSERT, TIME_INSERT>>

INSERT_QUERIES ==
    <<ARTISTS_INSERT, SONGS_INSERT, USERS_INSERT, TIME_INSERT, SONGPLAYS_INSERT>>

\* f"DROP TABLE IF EXISTS {table}"
DropStatement(t) == [name |-> "DROP TABLE IF EXISTS", kind |-> "drop", table |-> t]

\* ------------------------------------------------------------ the engine
\* the bug appending rules out: COPY as a replacement of the rows
CopyReplacing(rows, source) == source

\* COPY table FROM source: the source records are appended to the rows
CopyInto(rows, source) == rows (+) source

\* the rows an INSERT statement selects from the warehouse db
Selected(q, db) ==
    CASE q.name = "ARTISTS_INSERT" -> ArtistsSelect(db["staging_songs"].rows)
      [] q.name = "SONGS_INSERT" -> SongsSelect(db["staging_songs"].rows)
      [] q.name = "USERS_INSERT" -> UsersSelect(db["staging_events"].rows)
      [] q.name = "TIME_INSERT" -> TimeSelect(db["staging_events"].rows)
      [] q.name = "SONGPLAYS_INSERT" ->
            SongplaysSelect(db["staging_events"].rows, db["songs"].rows,
                            db["artists"].rows)

\* INSERT INTO table: the selected rows sel are appended, unless one of them
\* has NULL in a NOT NULL column, which fails the statement as a whole
Inserted(table, db, sel) ==
    IF \E r \in BagToSet(sel) : ~NotNullOk(table, r)
    THEN [ok |-> FALSE, db |-> db]
    ELSE [ok |-> TRUE, db |-> [db EXCEPT ![table].rows = @ (+) sel]]

\* What cursor.execute(q) does to the warehouse db in an autocommit session:
\* [ok, db].  ok = FALSE is a psycopg2.Error and leaves db as it was.
\*   CREATE TABLE fails when the relation exists;
\*   COPY appends the source records to the table;
\*   INSERT ... SELECT appends the selected rows;
\*   COPY and INSERT fail when a relation they name is missing;
\*   DROP TABLE IF EXISTS removes the relation if there is one.
Engine(q, db, events, songs) ==
    CASE q.kind = "create" ->
            IF db[q.table].exists THEN [ok |-> FALSE, db |-> db]
            ELSE [ok |-> TRUE, db |-> [db EXCEPT ![q.table] = Created(q.table)]]
      [] q.kind = "copy" ->
            IF ~Ready(db, q.table) THEN [ok |-> FALSE, db |-> db]
            ELSE [ok |-> TRUE,
                  db |-> [db EXCEPT ![q.table].rows =
                            CopyInto(@, IF q.table = "staging_events" THEN events
                                        ELSE songs)]]
      [] q.kind = "insert" ->
            IF \E t \in q.from \cup {q.table} : ~Ready(db, t)
            THEN [ok |-> FALSE, db |-> db]
            ELSE Inserted(q.table, db, Selected(q, db))
      [] q.kind = "drop" ->
            [ok |-> TRUE, db |-> [db EXCEPT ![q.table] = Absent]]

\* ------------------------------------------------------------ the wrappers
\* Each wrapper is given the psycopg2 fault the environment raises in it, if
\* any, and yields what the caller sees: ret is the returned value, or
\* "raise" when an exception leaves the wrapper; issued tells whether a
\* database call was made.  A method call on a cursor that is None raises
\* AttributeError, which no except clause of the wrappers names.

\* what the caller of a wrapper gets when the wrapped call gave r: the
\* except clause turns a psycopg2 error into the value onError
Contained(fault, r, db, onError, onSuccess) ==
    IF fault \/ ~r.ok
    THEN [ret |-> onError, ok |-> FALSE, issued |-> TRUE, db |-> db]
    ELSE [ret |-> onSuccess, ok |-> TRUE, issued |-> TRUE, db |-> r.db]

NoCursor(db) == [ret |-> "raise", ok |-> FALSE, issued |-> FALSE, db |-> db]

\* the bug the try/except prevents: the psycopg2 error leaves execute()
executeUncaught(query, cur, fault, db, events, songs) ==
    IF cur = "None" THEN NoCursor(db)
    ELSE Contained(fault, Engine(query, db, events, songs), db, "raise", "True")

execute(query, cur, fault, db, events, songs) ==
    IF cur = "None" THEN NoCursor(db)
    ELSE Contained(fault, Engine(query, db, events, songs), db, "False", "True")

drop(table, cur, fault, db) ==
    IF cur = "None" THEN NoCursor(db)
    ELSE Contained(fault, Engine(DropStatement(table), db, EmptyBag, EmptyBag), db,
                   "None", "None")

\* connect(connection_string, autocommit): failAt names the psycopg2 call
\* that raises ("none": no call does).  session is the autocommit mode the
\* opened session is left in; a new psycopg2 connection has it off.
connect(arg, failAt) ==
    [cursor |-> IF failAt = "none" THEN "open" ELSE "None",
     connection |-> IF failAt = "none" THEN "open" ELSE "None",
     session |-> failAt \in {"none", "cursor"}]

\* disconnect(cursor, connection): cursor.close() then connection.close(),
\* both inside one try; a fault in the first skips the second.
disconnect(cur, conn, failAt) ==
    IF cur = "None"
    THEN [ret |-> "raise", ok |-> FALSE, issued |-> FALSE, cursor |-> cur,
          connection |-> conn]
    ELSE [ret |-> "None", ok |-> failAt = "none", issued |-> TRUE,
          cursor |-> IF failAt = "cursor" THEN cur ELSE "closed",
          connection |-> IF failAt = "none" THEN "closed" ELSE conn]

\* connection.commit(), called by the load pipeline outside any try
commit(conn, fault) ==
    IF conn = "None" \/ fault
    THEN [ret |-> "raise", ok |-> FALSE, issued |-> conn # "None"]
    ELSE [ret |-> "None", ok |-> TRUE, issued |-> TRUE]

\* ---------------------------------------------------------- orchestrators
Call(op, arg, ok) == [op |-> op, arg |-> arg, ok |-> ok]

Issue(r, op, arg) == IF r.issued THEN Append(calls, Call(op, arg, r.ok)) ELSE calls

Charge(fault) == /\ fault => faults < MaxFaults
                 /\ faults' = IF fault THEN faults + 1 ELSE faults

\* the bug the early return prevents: main() goes on without a cursor
FirstStepNoReturn(p, cur) ==
    IF p = "create_tables" THEN "drop_tables" ELSE "load_execute"

\* the bug the drop phase prevents: main() creates without dropping first
FirstStepNoDrop(p, cur) ==
    IF cur = "None" THEN "done"
    ELSE IF p = "create_tables" THEN "create_tables" ELSE "load_execute"

\* where main() goes after connect(): `if not cursor: return`, else the
\* first loop of the pipeline
FirstStep(p, cur) ==
    IF cur = "None" THEN "done"
    ELSE IF p = "create_tables" THEN "drop_tables" ELSE "load_execute"

\* a script is started: python create_tables.py, or python etl.py
Start(p) ==
    /\ pc \in {"idle", "done"}
    /\ runs < MaxRuns
    /\ runs' = runs + 1
    /\ pipeline' = p
    /\ pc' = "connect"
    /\ i' = 0
    /\ cursor' = "None"
    /\ connection' = "None"
    /\ autocommit' = FALSE
    /\ autocommitArg' = FALSE
    /\ calls' = <<>>
    /\ raised' = "none"
    /\ prev' = tables
    /\ loads' = IF p = "create_tables" THEN 0 ELSE loads
    /\ UNCHANGED <<tables, srcEvents, srcSongs, faults>>

\* main(): cursor, connection = sql.connect(...); if not cursor: return
Connect(failAt) ==
    /\ pc = "connect"
    /\ Charge(failAt # "none")
    /\ LET arg == (pipeline = "create_tables")
           r == connect(arg, failAt)
       IN  /\ autocommitArg' = arg
           /\ cursor' = r.cursor
           /\ connection' = r.connection
           /\ autocommit' = r.session
           /\ calls' = Append(calls, Call("connect", "", failAt = "none"))
           /\ pc' = FirstStep(pipeline, r.cursor)
    /\ i' = 1
    /\ UNCHANGED <<tables, srcEvents, srcSongs, pipeline, raised, runs, prev, loads>>

\* one iteration of a for loop over seq has made the call op(arg), with the
\* wrapper result r; an exception ends main(), else the loop goes on
Advance(r, op, arg, seq, next) ==
    /\ tables' = r.db
    /\ calls' = Issue(r, op, arg)
    /\ raised' = IF r.ret = "raise" THEN op ELSE raised
    /\ pc' = IF r.ret = "raise" THEN "done" ELSE IF i < Len(seq) THEN pc ELSE next
    /\ i' = IF r.ret = "raise" THEN i ELSE IF i < Len(seq) THEN i + 1 ELSE 1

\* drop_tables(): for table in sql.TABLES: sql.drop(table, cursor)
DropTables(fault) ==
    /\ pc = "drop_tables"
    /\ Charge(fault)
    /\ Advance(drop(TABLES[i], cursor, fault, tables), "drop", TABLES[i], TABLES,
               "create_tables")
    /\ UNCHANGED <<srcEvents, srcSongs, pipeline, cursor, connection, autocommit,
                   autocommitArg, runs, prev, loads>>

\* create_tables(): for table in sql.CREATE_QUERIES: sql.execute(table, cursor)
CreateTables(fault) ==
    /\ pc = "create_tables"
    /\ Charge(fault)
    /\ Advance(execute(CREATE_QUERIES[i], cursor, fault, tables, srcEvents, srcSongs),
               "execute", CREATE_QUERIES[i].name, CREATE_QUERIES, "disconnect")
    /\ UNCHANGED <<srcEvents, srcSongs, pipeline, cursor, connection, autocommit,
                   autocommitArg, runs, prev, loads>>

\* sql.execute(query, cursor) has given r; its result is not looked at
Executed(r, arg, then) ==
    /\ tables' = r.db
    /\ calls' = Issue(r, "execute", arg)
    /\ raised' = IF r.ret = "raise" THEN "execute" ELSE raised
    /\ pc' = IF r.ret = "raise" THEN "done" ELSE then

\* sql.execute(query, cursor) of the loop over seq; the commit follows
ExecuteStep(at, seq, then, fault) ==
    /\ pc = at
    /\ Charge(fault)
    /\ Executed(execute(seq[i], cursor, fault, tables, srcEvents, srcSongs),
                seq[i].name, then)
    /\ UNCHANGED <<srcEvents, srcSongs, pipeline, i, cursor, connection, autocommit,
                   autocommitArg, runs, prev, loads>>

\* connection.commit() of the loop over seq.  The session is in autocommit
\* mode, so every statement was committed as it ran and commit() changes
\* nothing in the warehouse.
CommitStep(at, seq, back, next, fault) ==
    /\ pc = at
    /\ Charge(fault)
    /\ LET r == commit(connection, fault)
       IN  /\ calls' = Issue(r, "commit", "")
           /\ raised' = IF r.ret = "raise" THEN "commit" ELSE raised
           /\ pc' = IF r.ret = "raise" THEN "done"
                    ELSE IF i < Len(seq) THEN back ELSE next
           /\ i' = IF r.ret = "raise" THEN i
                   ELSE IF i < Len(seq) THEN i + 1 ELSE 1
    /\ UNCHANGED <<tables, srcEvents, srcSongs, pipeline, cursor, connection,
                   autocommit, autocommitArg, runs, prev, loads>>

\* load_staging_tables(): for query in sql.COPY_QUERIES: execute; commit
LoadExecute(fault) == ExecuteStep("load_execute", COPY_QUERIES, "load_commit", fault)
LoadCommit(fault) ==
    CommitStep("load_commit", COPY_QUERIES, "load_execute", "insert_execute", fault)

\* insert_tables(): for query in sql.INSERT_QUERIES: execute; commit
InsertExecute(fault) ==
    ExecuteStep("insert_execute", INSERT_QUERIES, "insert_commit", fault)
InsertCommit(fault) ==
    CommitStep("insert_commit", INSERT_QUERIES, "insert_execute", "disconnect", fault)

\* main(): sql.disconnect(cursor, connection), and main() returns
Disconnect(failAt) ==
    /\ pc = "disconnect"
    /\ Charge(failAt # "none")
    /\ LET r == disconnect(cursor, connection, failAt)
       IN  /\ cursor' = r.cursor
           /\ connection' = r.connection
           /\ calls' = Issue(r, "disconnect", "")
           /\ raised' = IF r.ret = "raise" THEN "disconnect" ELSE raised
    /\ pc' = "done"
    /\ loads' = IF pipeline = "etl" THEN loads + 1 ELSE loads
    /\ UNCHANGED <<tables, srcEvents, srcSongs, pipeline, i, autocommit,
                   autocommitArg, runs, prev>>


\* ---------------------------------------------------------- initial states
Fresh == [t \in TableNames |-> Absent]
CreatedAll == [t \in TableNames |-> Created(t)]

\* the data sets in S3: a log with one user seen at two levels and one
\* logged-out page hit, with the two song documents; or one page hit only
SourceSets ==
    {[events |-> SetToBag({Event(Some(1), "free", Some("T1")),
                           Event(Some(1), "paid", Some("T1")),
                           Event(Null, "free", Null)}),
      songs |-> SetToBag(SongDocs)],
     [events |-> SetToBag({Event(Some(2), "free", Null)}),
      songs |-> EmptyBag]}

Idle ==
    /\ pipeline = "none"
    /\ pc = "idle"
    /\ i = 0
    /\ cursor = "None"
    /\ connection = "None"
    /\ autocommit = FALSE
    /\ autocommitArg = FALSE
    /\ calls = <<>>
    /\ raised = "none"
    /\ faults = 0
    /\ runs = 0
    /\ loads = 0
    /\ prev = tables

\* a new cluster, or one on which the schema pipeline has run
Init ==
    /\ tables \in {Fresh, CreatedAll}
    /\ \E src \in SourceSets : srcEvents = src.events /\ srcSongs = src.songs
    /\ Idle

RECURSIVE Applied(_, _, _, _)
\* the warehouse db after the statements of seq have run in order
Applied(seq, db, events, songs) ==
    IF seq = <<>> THEN db
    ELSE Applied(Tail(seq), Engine(Head(seq), db, events, songs).db, events, songs)

\* a warehouse the two pipelines have filled
Loaded ==
    LET src == CHOOSE x \in SourceSets : x.songs # EmptyBag
    IN  Applied(COPY_QUERIES \o INSERT_QUERIES, CreatedAll, src.events, src.songs)

\* a relation of the same name that something else created
Legacy == [exists |-> TRUE, layout |-> <<"legacy">>,
           rows |-> SetToBag({[legacy |-> Some("x")]})]

\* any warehouse: each table missing, foreign, or filled by an earlier run
Warehouses ==
    {[t \in TableNames |-> CASE k[t] = "absent" -> Absent
                             [] k[t] = "legacy" -> Legacy
                             [] k[t] = "loaded" -> Loaded[t]] :
        k \in [TableNames -> {"absent", "legacy", "loaded"}]}

InitSchema ==
    /\ tables \in Warehouses
    /\ \E src \in SourceSets : srcEvents = src.events /\ srcSongs = src.songs
    /\ Idle

\* the rows of the dimension tables that the song documents give rise to
SongsRows == BagToSet(SongsSelect(SetToBag(SongDocs)))
ArtistsRows == BagToSet(ArtistsSelect(SetToBag(SongDocs)))

\* The load pipeline as it enters insert_tables(): both COPY statements have
\* run and staged a bounded but otherwise arbitrary data set; songs and
\* artists hold what earlier loads left; the other tables are empty.
InitSQL ==
    /\ srcEvents \in BagsUpTo(EventRows, MaxStagingRows)
    /\ srcSongs \in {SetToBag(S) : S \in SUBSET SongDocs}
    /\ \E S \in SUBSET SongsRows, A \in SUBSET ArtistsRows :
          tables = [CreatedAll EXCEPT !["staging_events"].rows = srcEvents,
                                      !["staging_songs"].rows = srcSongs,
                                      !["songs"].rows = SetToBag(S),
                                      !["artists"].rows = SetToBag(A)]
    /\ pipeline = "etl"
    /\ pc = "insert_execute"
    /\ i = 1
    /\ cursor = "open"
    /\ connection = "open"
    /\ autocommit = TRUE
    /\ autocommitArg = FALSE
    /\ calls = <<Call("connect", "", TRUE),
                 Call("execute", "STAGING_EVENTS_COPY", TRUE), Call("commit", "", TRUE),
                 Call("execute", "STAGING_SONGS_COPY", TRUE), Call("commit", "", TRUE)>>
    /\ raised = "none"
    /\ faults = 0
    /\ runs = 1
    /\ loads = 0
    /\ prev = tables

\* ------------------------------------------------------- specifications
Pipelines == {"create_tables", "etl"}

\* both pipelines, run one after another, with psycopg2 errors
Next ==
    \/ \E p \in Pipelines : Start(p)
    \/ \E f \in {"none", "connect", "set_session", "cursor"} : Connect(f)
    \/ \E f \in BOOLEAN : DropTables(f)
    \/ \E f \in BOOLEAN : CreateTables(f)
    \/ \E f \in BOOLEAN : LoadExecute(f)
    \/ \E f \in BOOLEAN : LoadCommit(f)
    \/ \E f \in BOOLEAN : InsertExecute(f)
    \/ \E f \in BOOLEAN : InsertCommit(f)
    \/ \E f \in {"none", "cursor", "connection"} : Disconnect(f)

Spec == Init /\ [][Next]_vars

\* both pipelines, run one after another, no psycopg2 error from outside
NextClean ==
    \/ \E p \in Pipelines : Start(p)
    \/ Connect("none")
    \/ DropTables(FALSE)
    \/ CreateTables(FALSE)
    \/ LoadExecute(FALSE)
    \/ LoadCommit(FALSE)
    \/ InsertExecute(FALSE)
    \/ InsertCommit(FALSE)
    \/ Disconnect("none")

SpecClean == Init /\ [][NextClean]_vars

\* the schema pipeline alone, run repeatedly on any warehouse
NextSchema ==
    \/ Start("create_tables")
    \/ Connect("none")
    \/ DropTables(FALSE)
    \/ CreateTables(FALSE)
    \/ Disconnect("none")

SpecSchema == InitSchema /\ [][NextSchema]_vars

\* insert_tables() on any staged data
NextSQL ==
    \/ InsertExecute(FALSE)
    \/ InsertCommit(FALSE)
    \/ Disconnect("none")

SpecSQL == InitSQL /\ [][NextSQL]_vars


\* ---------------------------------------------------------------- claims
InsertNames == {q.name : q \in Range(INSERT_QUERIES)}
CopyNames == {q.name : q \in Range(COPY_QUERIES)}

IsExec(k, name) == calls[k].op = "execute" /\ calls[k].arg = name
LastOp == IF calls = <<>> THEN "" ELSE calls[Len(calls)].op

\* statement `name` was executed, and its commit was called, before call k
CommittedBefore(name, k) ==
    \E j \in DOMAIN calls : j + 1 < k /\ IsExec(j, name) /\ calls[j + 1].op = "commit"

\* the statements that follow `name` in INSERT_QUERIES
LaterInserts(name) ==
    {INSERT_QUERIES[m].name : m \in {n \in DOMAIN INSERT_QUERIES :
        \E j \in DOMAIN INSERT_QUERIES : j < n /\ INSERT_QUERIES[j].name = name}}

Staged == tables["staging_events"].rows
\* table t existed and had no rows when the current run started
EmptyAtStart(t) == Ready(prev, t) /\ prev[t].rows = EmptyBag
\* number of rows of bag b that satisfy P
CountWhere(b, P(_)) == BagCardinality([r \in {x \in BagToSet(b) : P(x)} |-> b[r]])
\* the bag b, n times over
Copies(b, n) == IF n = 0 THEN EmptyBag ELSE [r \in BagToSet(b) |-> n * b[r]]

\* C1: in a load run, a failed execute() of an INSERT statement never raises
\* out of execute(); its commit is still called, and when the run ends
\* without an exception every later INSERT statement has been executed and
\* committed and the last call is the disconnect.
C1_InsertFaultContained ==
    pipeline = "etl" =>
        /\ raised # "execute"
        /\ \A k \in DOMAIN calls :
              (calls[k].op = "execute" /\ calls[k].arg \in InsertNames /\ ~calls[k].ok) =>
                  /\ k < Len(calls) => calls[k + 1].op = "commit"
                  /\ k = Len(calls) => pc = "insert_commit"
                  /\ (pc = "done" /\ raised = "none") =>
                        /\ \A n \in LaterInserts(calls[k].arg) :
                              \E m \in DOMAIN calls :
                                  /\ m > k /\ m < Len(calls)
                                  /\ IsExec(m, n)
                                  /\ calls[m + 1].op = "commit"
                        /\ LastOp = "disconnect"

\* a load run on a created schema has finished after the first INSERT failed
\* and a later one succeeded
C1_Witness ==
    /\ pipeline = "etl" /\ pc = "done" /\ raised = "none"
    /\ LastOp = "disconnect"
    /\ \E k, m \in DOMAIN calls :
          /\ IsExec(k, "ARTISTS_INSERT") /\ ~calls[k].ok
          /\ m > k /\ IsExec(m, "SONGPLAYS_INSERT") /\ calls[m].ok

\* C2: the session connect() opens has the autocommit mode it was asked for
\* (off for the load pipeline, on for the schema pipeline).
C2_AutocommitAsRequested ==
    connection = "open" => autocommit = autocommitArg

\* C3: after USERS_INSERT has run on an empty users table, every user id
\* that staging_events holds with two different attribute sets has exactly
\* one row in users.
C3_OneRowPerUser ==
    (pipeline = "etl" /\ EmptyAtStart("users")
        /\ \E k \in DOMAIN calls : IsExec(k, "USERS_INSERT") /\ calls[k].ok) =>
        \A e1, e2 \in BagToSet(Staged) :
            (~IsNull(e1.userId) /\ e1.userId = e2.userId /\ e1.level # e2.level) =>
                /\ CountWhere(tables["users"].rows, LAMBDA r : r.user_id = e1.userId) = 1
                /\ \E r \in BagToSet(tables["users"].rows) :
                      r.user_id = e1.userId /\ r.level \in {e1.level, e2.level}

\* C4: when connect() fails, main() returns at once: the failed connect is
\* the only call of the run, nothing raises and the warehouse is as it was.
C4_FailedConnectNoEffect ==
    (calls # <<>> /\ ~calls[1].ok) =>
        /\ pc = "done"
        /\ raised = "none"
        /\ calls = <<Call("connect", "", FALSE)>>
        /\ cursor = "None" /\ connection = "None"
        /\ tables = prev

\* the load pipeline has ended on a failed connect, on a created schema
C4_Witness ==
    /\ pipeline = "etl" /\ pc = "done"
    /\ calls = <<Call("connect", "", FALSE)>>
    /\ tables = CreatedAll

\* C5: in a run whose connect() succeeded no database fault propagates: the
\* run ends with the disconnect and main() returns normally.
C5_NoFaultPropagates ==
    (pc = "done" /\ calls # <<>> /\ calls[1].ok) =>
        /\ raised = "none"
        /\ LastOp = "disconnect"

\* C6 (as claimed): after a fault-free load run on an existing schema the
\* staging tables hold exactly the source data set, however many load runs
\* came before.
C6_StagingReplaced ==
    (pipeline = "etl" /\ pc = "done"
        /\ Ready(tables, "staging_events") /\ Ready(tables, "staging_songs")) =>
        /\ tables["staging_events"].rows = srcEvents
        /\ tables["staging_songs"].rows = srcSongs

\* C6 (amended): between runs, staging tables that exist hold the source
\* data set once for every fault-free load run since the schema pipeline
\* created them.
C6_StagingAccumulates ==
    (pc \in {"idle", "done"}
        /\ Ready(tables, "staging_events") /\ Ready(tables, "staging_songs")) =>
        /\ tables["staging_events"].rows = Copies(srcEvents, loads)
        /\ tables["staging_songs"].rows = Copies(srcSongs, loads)

\* two load runs in a row have finished on a created schema, with data
C6_Witness ==
    /\ pipeline = "etl" /\ pc = "done" /\ loads = 2
    /\ Ready(tables, "staging_events")
    /\ srcEvents # EmptyBag
    /\ tables["staging_events"].rows = Copies(srcEvents, 2)

\* C7: a staging_events row without a user id is skipped by USERS_INSERT and
\* SONGPLAYS_INSERT: neither statement fails on it, every row of users and
\* of songplays has a user id, and that id is the user id of a staged row.
C7_NoRowForNullUser ==
    pipeline = "etl" =>
        /\ \A k \in DOMAIN calls :
              (IsExec(k, "USERS_INSERT") \/ IsExec(k, "SONGPLAYS_INSERT")) => calls[k].ok
        /\ \A t \in {"users", "songplays"} :
              \A r \in BagToSet(tables[t].rows) :
                  /\ ~IsNull(r.user_id)
                  /\ \E e \in BagToSet(Staged) : e.userId = r.user_id

\* insert_tables() has finished on staged data with a row without a user id
\* and a row with one; users and songplays have rows
C7_Witness ==
    /\ pipeline = "etl" /\ pc = "done"
    /\ \E e \in BagToSet(Staged) : IsNull(e.userId)
    /\ \E e \in BagToSet(Staged) : ~IsNull(e.userId)
    /\ tables["users"].rows # EmptyBag
    /\ tables["songplays"].rows # EmptyBag

\* C8: after SONGPLAYS_INSERT has run on an empty songplays table, songplays
\* has as many rows as staging_events has rows with a user id.
C8_OneRowPerPlayEvent ==
    (pipeline = "etl" /\ EmptyAtStart("songplays")
        /\ \E k \in DOMAIN calls : IsExec(k, "SONGPLAYS_INSERT") /\ calls[k].ok) =>
        BagCardinality(tables["songplays"].rows)
            = CountWhere(Staged, LAMBDA e : ~IsNull(e.userId))

\* C9: after a fault-free run of the schema pipeline all seven tables exist,
\* empty, with the declared columns, whatever the warehouse held before; a
\* second run in succession leaves the warehouse as the first left it.
C9_SchemaIdempotent ==
    (pipeline = "create_tables" /\ pc = "done") =>
        /\ \A t \in TableNames :
              /\ tables[t].exists
              /\ tables[t].layout = Declared(t).cols
              /\ tables[t].rows = EmptyBag
        /\ runs >= 2 => tables = prev

\* the schema pipeline has finished a second run in succession
C9_Witness ==
    /\ pipeline = "create_tables" /\ pc = "done" /\ runs = 2
    /\ LastOp = "disconnect"
    /\ tables = prev

\* C10: the calls of a load run come in a fixed order: connect first; every
\* statement once, followed at once by its commit; both COPY statements
\* executed and committed before any INSERT; the artists and the songs
\* INSERT executed and committed before the songplays INSERT; disconnect
\* last, after a commit; and a run that ends without an exception has
\* executed all seven statements.
C10_LoadOrder ==
    pipeline = "etl" =>
        /\ \A k \in DOMAIN calls :
            /\ (calls[k].op = "connect") <=> (k = 1)
            /\ calls[k].op = "execute" =>
                  /\ calls[k].arg \in CopyNames \cup InsertNames
                  /\ \A j \in DOMAIN calls : IsExec(j, calls[k].arg) => j = k
                  /\ k < Len(calls) => calls[k + 1].op = "commit"
            /\ calls[k].op = "commit" => calls[k - 1].op = "execute"
            /\ (calls[k].op = "execute" /\ calls[k].arg \in InsertNames) =>
                  \A c \in CopyNames : CommittedBefore(c, k)
            /\ IsExec(k, "SONGPLAYS_INSERT") =>
                  /\ CommittedBefore("ARTISTS_INSERT", k)
                  /\ CommittedBefore("SONGS_INSERT", k)
            /\ calls[k].op = "disconnect" =>
                  /\ k = Len(calls)
                  /\ calls[k - 1].op = "commit"
        /\ (pc = "done" /\ raised = "none" /\ calls # <<>> /\ calls[1].ok) =>
            /\ \A n \in CopyNames \cup InsertNames : \E k \in DOMAIN calls : IsExec(k, n)
            /\ LastOp = "disconnect"

\* a load run has gone through all its calls
C10_Witness ==
    /\ pipeline = "etl" /\ pc = "done" /\ raised = "none"
    /\ LastOp = "disconnect"
    /\ \E k \in DOMAIN calls : IsExec(k, "SONGPLAYS_INSERT") /\ calls[k].ok

====
